---- MODULE Spec2Model ----
(***************************************************************************)
(* cloudwatch-get: fetch CloudWatch log events of one resolved log group   *)
(* for a time window and export them as deduplicated per-stream text files.*)
(*                                                                         *)
(* Python str values are sequences of one-character strings; Python None  *)
(* in a str-typed place is the sentinel NoneStr.  Local datetimes are      *)
(* whole seconds counted from datetime.min (0001-01-01T00:00:00).          *)
(***************************************************************************)
EXTENDS Integers, Sequences, FiniteSets, TLC

----------------------------------------------------------------------------
(* Bounds of the model                                                     *)

\* days 0..MaxDay after datetime.min appear in --from/--to and in the clock
MaxDay == 1
\* events delivered by filter_log_events over all pages of one run
MaxEvents == 3
\* pages of one pagination (describe_log_groups or filter_log_events)
MaxPages == 2
\* log groups listed by describe_log_groups over all pages
MaxGroups == 3
\* characters of the values sanitize_filename_component is called on
MaxLen == 4

----------------------------------------------------------------------------
(* Python str                                                              *)

NoneStr == <<"None">>

\* the characters used, in code point order
Ascii ==
  << "\n", " ", "*", "-", ".", "/", "2", "3", ":", "A", "\\", "_",
     "a", "b", "c", "d", "e", "i", "k", "m", "n", "o", "p", "q", "r", "s",
     "t", "u", "w", "x", "y" >>

Code(c) == CHOOSE i \in 1..Len(Ascii) : Ascii[i] = c

\* s < t for str: lexicographic by code point
RECURSIVE StrLess(_, _)
StrLess(s, t) ==
  IF t = <<>> THEN FALSE
  ELSE IF s = <<>> THEN TRUE
  ELSE IF Head(s) = Head(t) THEN StrLess(Tail(s), Tail(t))
  ELSE Code(Head(s)) < Code(Head(t))

\* str.endswith
EndsWith(s, suffix) ==
  /\ Len(suffix) <= Len(s)
  /\ SubSeq(s, Len(s) - Len(suffix) + 1, Len(s)) = suffix

IsSpace(c) == c \in {" ", "\n"}

\* str.strip()
RECURSIVE LStrip(_)
LStrip(s) == IF s # <<>> /\ IsSpace(Head(s)) THEN LStrip(Tail(s)) ELSE s

RECURSIVE RStrip(_)
RStrip(s) ==
  IF s # <<>> /\ IsSpace(s[Len(s)]) THEN RStrip(SubSeq(s, 1, Len(s) - 1)) ELSE s

Strip(s) == RStrip(LStrip(s))

\* sorted() of a set of str
RECURSIVE SortedStrs(_)
SortedStrs(S) ==
  IF S = {} THEN <<>>
  ELSE LET m == CHOOSE x \in S : \A y \in S \ {x} : StrLess(x, y)
       IN  <<m>> \o SortedStrs(S \ {m})

\* list.sort() of a list of str (insertion sort, stable)
RECURSIVE InsertStr(_, _)
InsertStr(x, sorted) ==
  IF sorted = <<>> THEN <<x>>
  ELSE IF StrLess(x, Head(sorted)) THEN <<x>> \o sorted
  ELSE <<Head(sorted)>> \o InsertStr(x, Tail(sorted))

RECURSIVE SortedList(_)
SortedList(l) ==
  IF l = <<>> THEN <<>>
  ELSE InsertStr(l[Len(l)], SortedList(SubSeq(l, 1, Len(l) - 1)))

----------------------------------------------------------------------------
(* sanitize_filename_component                                             *)

\* the class [\/\\:\s]
IsSeparator(c) == c \in {"/", "\\", ":"} \/ IsSpace(c)

\* the class [A-Za-z0-9._-]
IsSafeChar(c) ==
  c \in { "-", ".", "2", "3", "A", "_", "a", "b", "c", "d", "e", "i", "k",
          "m", "n", "o", "p", "q", "r", "s", "t", "u", "w", "x", "y" }

\* re.sub(r"[\/\\:\s]+", "_", value)
RECURSIVE SubSeparators(_)
SubSeparators(s) ==
  IF s = <<>> THEN <<>>
  ELSE IF IsSeparator(Head(s))
       THEN IF Len(s) > 1 /\ IsSeparator(s[2])
            THEN SubSeparators(Tail(s))
            ELSE <<"_">> \o SubSeparators(Tail(s))
       ELSE <<Head(s)>> \o SubSeparators(Tail(s))

\* re.sub(r"[^A-Za-z0-9._-]", "", sanitized)
DropUnsafe(s) == SelectSeq(s, IsSafeChar)

\* re.sub(r"_+", "_", sanitized)
RECURSIVE CollapseUnderscores(_)
CollapseUnderscores(s) ==
  IF s = <<>> THEN <<>>
  ELSE IF Head(s) = "_" /\ Len(s) > 1 /\ s[2] = "_"
       THEN CollapseUnderscores(Tail(s))
       ELSE <<Head(s)>> \o CollapseUnderscores(Tail(s))

\* sanitized.strip("_")
RECURSIVE StripUnderscores(_)
StripUnderscores(s) ==
  IF s # <<>> /\ Head(s) = "_" THEN StripUnderscores(Tail(s))
  ELSE IF s # <<>> /\ s[Len(s)] = "_"
       THEN StripUnderscores(SubSeq(s, 1, Len(s) - 1))
       ELSE s

\* faulty variant: runs of underscores are left as they are
SanitizeWithoutCollapse(value) ==
  LET sanitized == StripUnderscores(DropUnsafe(SubSeparators(value)))
  IN  IF sanitized = <<>> THEN <<"i", "t", "e", "m">> ELSE sanitized

sanitize_filename_component(value) ==
  LET sanitized == StripUnderscores(CollapseUnderscores(DropUnsafe(SubSeparators(value))))
  IN  IF sanitized = <<>> THEN <<"i", "t", "e", "m">> ELSE sanitized

----------------------------------------------------------------------------
(* Local datetimes and the time window                                     *)

DEFAULT_WINDOW_HOURS == 12

SecondsPerHour == 60 * 60
SecondsPerDay == 24 * SecondsPerHour

\* timedelta(hours=DEFAULT_WINDOW_HOURS), in seconds
DefaultWindow == DEFAULT_WINDOW_HOURS * SecondsPerHour

\* seconds of the day that appear in the inputs and in the clock:
\* midnight, just below and exactly the default window, the last second
SecondsOfDay == {0, DefaultWindow - 1, DefaultWindow, SecondsPerDay - 1}

\* A value of --from/--to as argparse hands it over: None (option absent),
\* "" (empty), whitespace only, a text in neither format, a text in
\* INPUT_DATE_FORMAT or a text in INPUT_DATETIME_FORMAT.
Raw(fmt, day, sec) == [fmt |-> fmt, day |-> day, sec |-> sec]
NoneRaw == Raw("None", 0, 0)

RawValues ==
  {Raw(f, 0, 0) : f \in {"None", "empty", "blank", "garbage"}}
    \cup {Raw("date", d, 0) : d \in 0..MaxDay}
    \cup {Raw("datetime", d, s) : d \in 0..MaxDay, s \in SecondsOfDay}

\* the clock never reads a time before the default window after datetime.min
ClockValues == {d * SecondsPerDay + s : d \in 1..MaxDay, s \in SecondsOfDay}

\* bool(raw_value) of an optional str
Truthy(raw) == raw.fmt \notin {"None", "empty"}

ConfigError(msg) == [kind |-> "ConfigError", from_dt |-> 0, to_dt |-> 0, msg |-> msg]
OverflowError == [kind |-> "OverflowError", from_dt |-> 0, to_dt |-> 0, msg |-> "date value out of range"]
Window(from_dt, to_dt) == [kind |-> "ok", from_dt |-> from_dt, to_dt |-> to_dt, msg |-> ""]
NoWindow == [kind |-> "unset", from_dt |-> 0, to_dt |-> 0, msg |-> ""]

\* parse_local_datetime: the parsed datetime, or the ConfigError raised
parse_local_datetime(raw_value) ==
  IF raw_value.fmt = "blank"
  THEN ConfigError("Datetime value cannot be empty")
  ELSE IF raw_value.fmt = "datetime"
  THEN Window(raw_value.day * SecondsPerDay + raw_value.sec, 0)
  ELSE IF raw_value.fmt = "date"
  THEN Window(raw_value.day * SecondsPerDay, 0)
  ELSE ConfigError("Invalid datetime")

\* to_dt - timedelta(hours=DEFAULT_WINDOW_HOURS) is a datetime only when it
\* is not before datetime.min; otherwise the subtraction raises OverflowError
CanSubtractWindow(dt) == dt - DefaultWindow >= 0

\* resolve_window(from_raw, to_raw) with the clock reading now_local: the
\* window returned, or the exception raised
resolve_window(from_raw, to_raw, now_local) ==
  LET from_p == parse_local_datetime(from_raw)
      to_p   == parse_local_datetime(to_raw)
      hasFrom == Truthy(from_raw)
      hasTo   == Truthy(to_raw)
      to_dt   == IF hasTo THEN to_p.from_dt ELSE now_local
      from_dt == IF hasFrom THEN from_p.from_dt ELSE to_dt - DefaultWindow
  IN  IF hasFrom /\ from_p.kind # "ok" THEN from_p
      ELSE IF hasTo /\ to_p.kind # "ok" THEN to_p
      ELSE IF ~hasFrom /\ ~CanSubtractWindow(to_dt) THEN OverflowError
      ELSE IF from_dt > to_dt
           THEN ConfigError("--from must be earlier than or equal to --to")
           ELSE Window(from_dt, to_dt)

----------------------------------------------------------------------------
(* local_datetime_to_epoch_ms                                              *)

\* The time zone of the host around one change of its UTC offset: the offset
\* (seconds east of UTC) in force before and after the change, and the
\* instant of the change in UTC, counted like the local datetimes.  A zone
\* without daylight saving time has the same offset before and after.
Zone(before, after, at) == [before |-> before, after |-> after, at |-> at]
NoZone == Zone(0, 0, -1)

\* The offset time.mktime applies to the local reading dt with tm_isdst = -1
\* (datetime.timetuple): a reading the clocks skip when they go forward is
\* taken with the offset before the change; a reading the clocks show twice
\* when they go back is taken with the offset the C library estimates, which
\* is the offset of its previous conversion.
OffsetAt(dt, zone, estimate) ==
  LET early == IF zone.before < zone.after THEN zone.before ELSE zone.after
      late  == IF zone.before < zone.after THEN zone.after ELSE zone.before
  IN  IF dt < zone.at + early THEN zone.before
      ELSE IF dt >= zone.at + late THEN zone.after
      ELSE IF zone.before < zone.after THEN zone.before
      ELSE estimate

\* time.mktime(dt.timetuple()): the instant in whole seconds.  The seconds
\* are counted from datetime.min in UTC; the Unix epoch lies a fixed
\* 719162 days later, a shift that is the same for every instant.
mktime(dt, zone, estimate) == dt - OffsetAt(dt, zone, estimate)

local_datetime_to_epoch_ms(dt, end_of_second, zone, estimate) ==
  LET epoch_ms == mktime(dt, zone, estimate) * 1000
  IN  IF end_of_second THEN epoch_ms + 999 ELSE epoch_ms

----------------------------------------------------------------------------
(* resolve_log_group_name                                                  *)

\* f"{base_name}-{env_name}"
Suffix(base_name, env_name) == base_name \o <<"-">> \o env_name

\* the inner loop over one page: the names of the page that are str and end
\* with the suffix, appended to matches in page order
RECURSIVE AppendMatches(_, _, _)
AppendMatches(matches, page, suffix) ==
  IF page = <<>> THEN matches
  ELSE LET name == Head(page)
       IN  AppendMatches(
             IF name # NoneStr /\ EndsWith(name, suffix)
             THEN Append(matches, name) ELSE matches,
             Tail(page), suffix)

Resolved(name) == [kind |-> "ok", name |-> name, msg |-> "", suffix |-> <<>>, candidates |-> <<>>]
NotFound(suffix) ==
  [kind |-> "ConfigError", name |-> <<>>, msg |-> "No log groups found",
   suffix |-> suffix, candidates |-> <<>>]
Ambiguous(suffix, candidates) ==
  [kind |-> "ConfigError", name |-> <<>>, msg |-> "Multiple log groups match",
   suffix |-> suffix, candidates |-> candidates]
Unresolved == [kind |-> "unset", name |-> <<>>, msg |-> "", suffix |-> <<>>, candidates |-> <<>>]

\* faulty variant: several matches are settled by taking the first
ResolveFirstMatch(matches, suffix) ==
  IF matches = <<>> THEN NotFound(suffix) ELSE Resolved(matches[1])

\* what resolve_log_group_name returns or raises once the listing is exhausted
ResolveFromMatches(matches, suffix) ==
  IF matches = <<>> THEN NotFound(suffix)
  ELSE IF Len(matches) > 1 THEN Ambiguous(suffix, SortedList(matches))
  ELSE Resolved(matches[1])

----------------------------------------------------------------------------
(* fetch_events_by_stream                                                  *)

\* an absent (None) int field of an event
NoneInt == -1

\* an event of a filter_log_events page
Event(stream, id, ts, ing, msg) ==
  [logStreamName |-> stream, eventId |-> id, timestamp |-> ts,
   ingestionTime |-> ing, message |-> msg]

\* int(value or 0)
IntOrZero(value) == IF value = NoneInt THEN 0 ELSE value

\* str(event_id or "")
StrOrEmpty(value) == IF value = NoneStr THEN <<>> ELSE value

\* text.replace("\r", "\\r").replace("\n", "\\n") of a str
RECURSIVE EscapeNewlines(_)
EscapeNewlines(text) ==
  IF text = <<>> THEN <<>>
  ELSE IF Head(text) = "\n" THEN <<"\\", "n">> \o EscapeNewlines(Tail(text))
  ELSE <<Head(text)>> \o EscapeNewlines(Tail(text))

make_utf8_safe_line(message) ==
  EscapeNewlines(IF message = NoneStr THEN <<>> ELSE message)

\* faulty variant: an empty stream name is kept as it is
StreamOfUnlessNone(event) ==
  IF event.logStreamName = NoneStr
  THEN <<"u","n","k","n","o","w","n","_","s","t","r","e","a","m">>
  ELSE event.logStreamName

\* the stream an event is filed under
StreamOf(event) ==
  IF event.logStreamName = NoneStr \/ event.logStreamName = <<>>
  THEN <<"u","n","k","n","o","w","n","_","s","t","r","e","a","m">>
  ELSE event.logStreamName

\* faulty variant: an empty identifier counts as an identifier
HasEventIdNotNone(event) == event.eventId # NoneStr

\* isinstance(event_id, str) and event_id
HasEventId(event) == event.eventId # NoneStr /\ event.eventId # <<>>

\* faulty variant: nothing is ever skipped
IsDuplicateNever(event, seen_event_ids) == FALSE

\* skipped by "if event_id in seen_event_ids: continue"
IsDuplicate(event, seen_event_ids) ==
  HasEventId(event) /\ event.eventId \in seen_event_ids

\* the tuple appended to the stream's bucket
Item(event) ==
  << IntOrZero(event.timestamp), IntOrZero(event.ingestionTime),
     StrOrEmpty(event.eventId), make_utf8_safe_line(event.message) >>

\* events_by_stream.setdefault(stream_name, []).append(item)
AppendToBucket(events_by_stream, stream_name, item) ==
  IF stream_name \in DOMAIN events_by_stream
  THEN [events_by_stream EXCEPT ![stream_name] = Append(@, item)]
  ELSE (stream_name :> <<item>>) @@ events_by_stream

\* one pass of the loop body over an event; acc is the pair of locals
\* [events_by_stream, seen_event_ids]
CollectEvent(acc, event) ==
  IF IsDuplicate(event, acc.seen_event_ids) THEN acc
  ELSE [events_by_stream |->
          AppendToBucket(acc.events_by_stream, StreamOf(event), Item(event)),
        seen_event_ids |->
          IF HasEventId(event) THEN acc.seen_event_ids \cup {event.eventId}
          ELSE acc.seen_event_ids]

\* the inner loop over the events of one page
RECURSIVE CollectPage(_, _)
CollectPage(acc, page) ==
  IF page = <<>> THEN acc
  ELSE CollectPage(CollectEvent(acc, Head(page)), Tail(page))

EmptyCollection == [events_by_stream |-> <<>>, seen_event_ids |-> {}]

----------------------------------------------------------------------------
(* write_event_files                                                       *)

\* str(n) of an int n >= 0
RECURSIVE Dec(_)
Dec(n) ==
  LET digit == <<"0", "1", "2", "3", "4", "5", "6", "7", "8", "9">>[(n % 10) + 1]
  IN  IF n < 10 THEN <<digit>> ELSE Dec(n \div 10) \o <<digit>>

\* dt.strftime(OUTPUT_WINDOW_FORMAT): a separator-free rendering of dt
Compact(dt) == Dec(dt)

\* to_output_timestamp: the second the millisecond lies in, rendered
to_output_timestamp(epoch_ms) == Dec(epoch_ms \div 1000)

\* f"{safe_group}_{from_part}-{to_part}_{safe_stream}"
Stem(log_group_name, from_dt, to_dt, stream_name) ==
  sanitize_filename_component(log_group_name) \o <<"_">> \o Compact(from_dt)
    \o <<"-">> \o Compact(to_dt) \o <<"_">>
    \o sanitize_filename_component(stream_name)

\* the while loop of unique_output_path, entered with candidate and index
RECURSIVE NextFree(_, _, _, _)
NextFree(stem, candidate, index, used_stems) ==
  IF candidate \in used_stems
  THEN NextFree(stem, stem \o <<"_">> \o Dec(index), index + 1, used_stems)
  ELSE candidate

\* faulty variant: a taken stem gets _2 without a further look
UniqueOnce(stem, used_stems) ==
  IF stem \in used_stems THEN stem \o <<"_">> \o Dec(2) ELSE stem

\* unique_output_path: the candidate taken (the path is out_dir/candidate.txt)
unique_output_path(stem, used_stems) == NextFree(stem, stem, 2, used_stems)

\* faulty variant: the timestamp alone is the key
KeyLessTimestampOnly(item, other) == item[1] < other[1]

\* (item[0], item[1], item[2]) < (other[0], other[1], other[2])
KeyLess(item, other) ==
  \/ item[1] < other[1]
  \/ item[1] = other[1] /\ item[2] < other[2]
  \/ item[1] = other[1] /\ item[2] = other[2] /\ StrLess(item[3], other[3])

\* sorted(events, key=...): stable, an item goes behind the items whose key
\* is not greater
RECURSIVE InsertItem(_, _)
InsertItem(item, sorted) ==
  IF sorted = <<>> THEN <<item>>
  ELSE IF KeyLess(item, Head(sorted)) THEN <<item>> \o sorted
  ELSE <<Head(sorted)>> \o InsertItem(item, Tail(sorted))

RECURSIVE SortedItems(_)
SortedItems(events) ==
  IF events = <<>> THEN <<>>
  ELSE InsertItem(events[Len(events)], SortedItems(SubSeq(events, 1, Len(events) - 1)))

\* f"{to_output_timestamp(timestamp)} : {message}\n"
Line(item) == <<to_output_timestamp(item[1]), item[4]>>

\* a file: its lines, and for each line the item it was written from
File(lines, items) == [lines |-> lines, items |-> items]
EmptyFile == File(<<>>, <<>>)

\* the loop of write_event_files run to its end without an I/O error: the
\* lines of every file written, by path
RECURSIVE WriteStreams(_, _, _, _, _, _, _)
WriteStreams(log_group_name, from_dt, to_dt, buckets, streams, used_stems, files) ==
  IF streams = <<>> THEN files
  ELSE LET stream_name == Head(streams)
           path == unique_output_path(
                     Stem(log_group_name, from_dt, to_dt, stream_name), used_stems)
           events == SortedItems(buckets[stream_name])
       IN  WriteStreams(log_group_name, from_dt, to_dt, buckets, Tail(streams),
                        used_stems \cup {path},
                        (path :> [i \in 1..Len(events) |-> Line(events[i])]) @@ files)

write_event_files(log_group_name, from_dt, to_dt, buckets) ==
  WriteStreams(log_group_name, from_dt, to_dt, buckets,
               SortedStrs(DOMAIN buckets), {}, <<>>)

NoHandle == [path |-> <<>>, stream_name |-> <<>>, pending |-> <<>>]

\* a file left in the output directory by an earlier run
PreexistingPath ==
  Stem(<<"a", "-", "s">>, SecondsPerDay - DefaultWindow, SecondsPerDay, <<"a">>)
PreexistingFile == File(<< <<Dec(0), <<"o", "k">> >> >>, <<>>)

----------------------------------------------------------------------------
(* The run of main()                                                       *)

VARIABLES
  pc,               \* the statement of main() the run is at
  exit_code,        \* the process exit status, -1 while the run goes on
  args,             \* the argparse.Namespace
  now_local,        \* the clock reading of resolve_window
  window,           \* what resolve_window returned or raised
  pages,            \* pages the running paginator has yielded
  page,             \* the page the running paginator yielded last
  listed,           \* the log groups listed so far, in listing order
  matches,          \* resolve_log_group_name: matches
  resolved,         \* what resolve_log_group_name returned or raised
  delivered,        \* the events delivered so far, in delivery order
  acc,              \* fetch_events_by_stream: events_by_stream, seen_event_ids
  events_by_stream, \* main: events_by_stream
  dir_created,      \* out_dir.mkdir was called
  todo,             \* write_event_files: the streams the loop has yet to visit
  used_stems,       \* write_event_files: used_stems
  written_paths,    \* write_event_files: written_paths
  handle,           \* the open file and the sorted events yet to write
  opened,           \* the (stream, path) pairs the loop opened, in order
  disk,             \* the files of the output directory
  tz,               \* the time zone of the host
  start_ms,         \* main: start_ms
  end_ms,           \* main: end_ms
  value,            \* sanitize_filename_component: value
  sanitized         \* sanitize_filename_component: what it returned

vars ==
  << pc, exit_code, args, now_local, window, pages, page, listed, matches, resolved,
     delivered, acc, events_by_stream, dir_created, todo, used_stems,
     written_paths, handle, opened, disk, tz, start_ms, end_ms, value, sanitized >>

windowVars  == <<now_local, window>>
resolveVars == <<listed, matches, resolved>>
fetchVars   == <<delivered, acc, events_by_stream>>
writeVars   == <<dir_created, todo, used_stems, written_paths, handle, opened, disk>>
queryVars   == <<tz, start_ms, end_ms>>
sanitizeVars == <<value, sanitized>>

Init ==
  /\ pc = "parse_args"
  /\ exit_code = -1
  /\ args = [base_log_group_name |-> NoneStr, env |-> NoneStr,
             from_ts |-> NoneRaw, to_ts |-> NoneRaw]
  /\ now_local = 0
  /\ window = NoWindow
  /\ pages = 0
  /\ page = <<>>
  /\ listed = <<>>
  /\ matches = <<>>
  /\ resolved = Unresolved
  /\ delivered = <<>>
  /\ acc = EmptyCollection
  /\ events_by_stream = <<>>
  /\ dir_created = FALSE
  /\ todo = <<>>
  /\ used_stems = {}
  /\ written_paths = <<>>
  /\ handle = NoHandle
  /\ opened = <<>>
  /\ disk = (PreexistingPath :> PreexistingFile)
  /\ tz = NoZone
  /\ start_ms = NoneInt
  /\ end_ms = NoneInt
  /\ value = NoneStr
  /\ sanitized = NoneStr

\* return <code> from main, or an exception leaving it
Exit(code) == pc' = "exit" /\ exit_code' = code

Goto(label) == pc' = label /\ exit_code' = exit_code

base_name == Strip(args.base_log_group_name)
env_name == Strip(args.env)

\* main, lines 283-292: the command line, base name and --env stripped and
\* required to be non-empty
ParseArgs(Bases, Envs, Raws) ==
  /\ pc = "parse_args"
  /\ \E b \in Bases, e \in Envs, f \in Raws, t \in Raws :
       /\ args' = [base_log_group_name |-> b, env |-> e, from_ts |-> f, to_ts |-> t]
       /\ IF Strip(b) = <<>> \/ Strip(e) = <<>>
          THEN Exit(2)
          ELSE Goto("resolve_window")
  /\ UNCHANGED <<sanitizeVars, queryVars, pages, page, windowVars, resolveVars, fetchVars, writeVars>>

\* main, lines 294-298: resolve_window; ConfigError is caught and returns 2,
\* any other exception leaves main uncaught (exit status 1)
ResolveWindow(Clock) ==
  /\ pc = "resolve_window"
  /\ \E n \in Clock :
       LET w == resolve_window(args.from_ts, args.to_ts, n)
       IN  /\ now_local' = n
           /\ window' = w
           /\ IF w.kind = "ok" THEN Goto("resolve_profile")
              ELSE IF w.kind = "ConfigError" THEN Exit(2)
              ELSE Exit(1)
  /\ UNCHANGED <<sanitizeVars, queryVars, args, pages, page, resolveVars, fetchVars, writeVars>>

\* main, lines 300-322: configuration, profile and region; a ConfigError
\* returns 2
ResolveProfile(Outcomes) ==
  /\ pc = "resolve_profile"
  /\ \E outcome \in Outcomes :
       IF outcome = "ok" THEN Goto("session") ELSE Exit(2)
  /\ UNCHANGED <<sanitizeVars, queryVars, args, pages, page, windowVars, resolveVars, fetchVars, writeVars>>

\* main, lines 324-332: the session and the client; ProfileNotFound and
\* BotoCoreError go to auth_error, which exits with 3; then the query
\* boundaries, start_ms converted before end_ms
CreateSession(Outcomes, Zones) ==
  /\ pc = "session"
  /\ \E outcome \in Outcomes, zone \in Zones :
       \E estimate \in {zone.before, zone.after} :
         IF outcome = "ok"
         THEN /\ tz' = zone
              /\ start_ms' = local_datetime_to_epoch_ms(window.from_dt, FALSE, zone, estimate)
              /\ end_ms' = local_datetime_to_epoch_ms(
                             window.to_dt, TRUE, zone,
                             OffsetAt(window.from_dt, zone, estimate))
              /\ Goto("list_groups")
         ELSE /\ UNCHANGED queryVars
              /\ Exit(3)
  /\ UNCHANGED <<sanitizeVars, args, pages, page, windowVars, resolveVars, fetchVars, writeVars>>

\* resolve_log_group_name, lines 174-178: the paginator yields one more page
ListGroupsPage(Names) ==
  /\ pc = "list_groups"
  /\ pages < MaxPages
  /\ \E n \in 0..(MaxGroups - Len(listed)) :
       \E names \in [1..n -> Names] :
         /\ page' = names
         /\ listed' = listed \o names
         /\ matches' = AppendMatches(matches, names, Suffix(base_name, env_name))
  /\ pages' = pages + 1
  /\ UNCHANGED <<sanitizeVars, queryVars, pc, exit_code, args, windowVars, resolved, fetchVars, writeVars>>

\* resolve_log_group_name, lines 180-187, and main, lines 339-341: the
\* listing is exhausted; a ConfigError returns 2
ListGroupsEnd ==
  /\ pc = "list_groups"
  /\ resolved' = ResolveFromMatches(matches, Suffix(base_name, env_name))
  /\ IF resolved'.kind = "ok" THEN Goto("fetch_events") ELSE Exit(2)
  /\ pages' = 0
  /\ page' = <<>>
  /\ UNCHANGED <<sanitizeVars, queryVars, args, windowVars, listed, matches, fetchVars, writeVars>>

\* faulty variant: the failure is swallowed and the run goes on to write what it has
RemoteFailsKeepsPartial ==
  /\ pc \in {"list_groups", "fetch_events"}
  /\ events_by_stream' = acc.events_by_stream
  /\ Goto("mkdir")
  /\ UNCHANGED <<sanitizeVars, queryVars, args, pages, page, windowVars, resolveVars, delivered, acc, writeVars>>

\* main, lines 337-338: the remote call for a page raises; auth_error exits
\* with 3
RemoteFails ==
  /\ pc \in {"list_groups", "fetch_events"}
  /\ Exit(3)
  /\ UNCHANGED <<sanitizeVars, queryVars, args, pages, page, windowVars, resolveVars, fetchVars, writeVars>>

\* fetch_events_by_stream, lines 219-239: the paginator yields one more page
FetchPage(Events) ==
  /\ pc = "fetch_events"
  /\ pages < MaxPages
  /\ \E n \in 0..(MaxEvents - Len(delivered)) :
       \E events \in [1..n -> Events] :
         /\ page' = events
         /\ delivered' = delivered \o events
         /\ acc' = CollectPage(acc, events)
  /\ pages' = pages + 1
  /\ UNCHANGED <<sanitizeVars, queryVars, pc, exit_code, args, windowVars, resolveVars, events_by_stream, writeVars>>

\* fetch_events_by_stream, line 240, and main, line 336: the pages are
\* exhausted and main holds the buckets
FetchEnd ==
  /\ pc = "fetch_events"
  /\ events_by_stream' = acc.events_by_stream
  /\ Goto("mkdir")
  /\ pages' = 0
  /\ page' = <<>>
  /\ UNCHANGED <<sanitizeVars, queryVars, args, windowVars, resolveVars, delivered, acc, writeVars>>

\* write_event_files, lines 262-269: the directory, then the loop over the
\* sorted stream names
Mkdir ==
  /\ pc = "mkdir"
  /\ dir_created' = TRUE
  /\ todo' = SortedStrs(DOMAIN events_by_stream)
  /\ IF todo' = <<>> THEN Exit(0) ELSE Goto("open")
  /\ UNCHANGED <<sanitizeVars, queryVars, args, pages, page, windowVars, resolveVars, fetchVars,
                 used_stems, written_paths, handle, opened, disk>>

\* write_event_files, lines 270-274: the next stream's path, its sorted
\* events, and the file opened for writing (created or truncated)
OpenFile ==
  /\ pc = "open"
  /\ LET stream_name == Head(todo)
         stem == Stem(resolved.name, window.from_dt, window.to_dt, stream_name)
         path == unique_output_path(stem, used_stems)
         events == SortedItems(events_by_stream[stream_name])
     IN  /\ used_stems' = used_stems \cup {path}
         /\ handle' = [path |-> path, stream_name |-> stream_name, pending |-> events]
         /\ opened' = Append(opened, [stream_name |-> stream_name, path |-> path])
         /\ disk' = (path :> EmptyFile) @@ disk
         /\ Goto(IF events = <<>> THEN "close" ELSE "write_line")
  /\ UNCHANGED <<sanitizeVars, queryVars, args, pages, page, windowVars, resolveVars, fetchVars,
                 dir_created, todo, written_paths>>

\* write_event_files, lines 275-276: one line written to the open file
WriteLine ==
  /\ pc = "write_line"
  /\ LET item == Head(handle.pending)
     IN  /\ disk' = [disk EXCEPT ![handle.path] =
                       File(Append(@.lines, Line(item)), Append(@.items, item))]
         /\ handle' = [handle EXCEPT !.pending = Tail(@)]
         /\ Goto(IF Tail(handle.pending) = <<>> THEN "close" ELSE "write_line")
  /\ UNCHANGED <<sanitizeVars, queryVars, args, pages, page, windowVars, resolveVars, fetchVars,
                 dir_created, todo, used_stems, written_paths, opened>>

\* write_event_files, lines 274-279, and main, line 357: the file is closed
\* and recorded; after the last stream main returns 0
CloseFile ==
  /\ pc = "close"
  /\ written_paths' = Append(written_paths, handle.path)
  /\ handle' = NoHandle
  /\ todo' = Tail(todo)
  /\ IF Tail(todo) = <<>> THEN Exit(0) ELSE Goto("open")
  /\ UNCHANGED <<sanitizeVars, queryVars, args, pages, page, windowVars, resolveVars, fetchVars,
                 dir_created, used_stems, opened, disk>>

\* main, lines 353-355: mkdir, open, write or close raises OSError; main
\* returns 2 and the files stay as they are
WriteFails ==
  /\ pc \in {"mkdir", "open", "write_line", "close"}
  /\ Exit(2)
  /\ UNCHANGED <<sanitizeVars, queryVars, args, pages, page, windowVars, resolveVars, fetchVars, writeVars>>

\* sanitize_filename_component, lines 190-195: one call, on a value
Sanitize(Values) ==
  /\ value = NoneStr
  /\ \E v \in Values :
       /\ value' = v
       /\ sanitized' = sanitize_filename_component(v)
  /\ UNCHANGED <<pc, exit_code, args, pages, page, windowVars, resolveVars,
                 fetchVars, writeVars, queryVars>>

----------------------------------------------------------------------------
(* Inputs                                                                  *)

GroupA == <<"a", "-", "s">>

OneBase == {<<"a">>}
OneEnv == {<<"s">>}
OneRaw == {NoneRaw}
OneClock == {SecondsPerDay}
OneGroup == {GroupA}
Succeeds == {"ok"}
Utc == Zone(0, 0, 0)
OneZone == {Utc}

\* the whole run: few values at every stage, every outcome of every stage
MainBases == {<<"a">>, <<" ">>}
MainRaws == {NoneRaw, Raw("garbage", 0, 0), Raw("date", 0, 0), Raw("date", 1, 0)}
MainClock == {SecondsPerDay + DefaultWindow}
MainGroups == {GroupA, <<"b", "a", "-", "s">>}
MainEvents ==
  { Event(<<"a">>, <<"p">>, 5000, 1, <<"x">>),
    Event(<<"a">>, <<"q">>, 5000, 2, <<"y">>),
    Event(NoneStr, NoneStr, NoneInt, NoneInt, NoneStr) }
MayFail == {"ok", "error"}

\* the listing: names with and without the suffix, a proper extension of a
\* matching name, a name that only contains the suffix, and a non-str name
ResolveBases == {<<"a">>, <<"b", "a">>}
GroupNames ==
  { GroupA, <<"b", "a", "-", "s">>, <<"a", "-", "t">>, <<"a", "-", "s", "x">>, NoneStr }

\* deduplication: absent, empty and two non-empty identifiers in two streams
DedupEvents ==
  { Event(s, i, 5000, 1, <<"x">>) :
      s \in {<<"a">>, NoneStr}, i \in {NoneStr, <<>>, <<"p">>, <<"q">>} }

\* ordering: one stream, ties on the timestamp and on the ingestion time
SortEvents ==
  { Event(<<"a">>, i, t, g, <<"x">>) :
      i \in {<<>>, <<"p">>, <<"q">>}, t \in {5000, 5001}, g \in {1, 2} }

\* file names: streams that sanitize to the same name, a stream named like
\* another's suffixed name (sorting behind and before it), an absent name
NameEvents ==
  { Event(s, <<>>, 5000, 1, <<"x">>) :
      s \in { <<"a">>, <<"a", "/">>, <<"a", ":">>, <<"a", "_", "2">>,
              <<" ", "a", "_", "2">>, NoneStr } }

\* delivery order: events that differ in the message alone
OrderEvents ==
  { Event(s, <<>>, 5000, 1, m) : s \in {<<"a">>, <<"b">>}, m \in {<<"x">>, <<"y">>} }
    \cup { Event(<<"a">>, <<"p">>, 5000, 1, <<"x">>) }

\* sanitizing: every str of up to MaxLen characters over a letter, the safe
\* punctuation, the underscore, three separators and a character of neither
\* class; and longer values with the other separators, a digit and a capital
SanitizeAlphabet == {"a", "-", ".", "_", "/", ":", " ", "*"}
SanitizeExamples ==
  { <<"a", "/", "b", " ", "c", ":", "d">>,
    <<"A", "\\", "\n", "2", "*", "_", "/", "a">>,
    <<"/", "\\", ":", " ", "\n">>,
    <<"a", "/", "*", "/", "b">>,
    <<"i", "t", "e", "m">> }
SanitizeValues ==
  UNION {[1..n -> SanitizeAlphabet] : n \in 0..MaxLen} \cup SanitizeExamples

\* conservation: a named, an absent and an empty stream name; events without
\* identifier, alike or differing in the message, and events sharing one
ConserveEvents ==
  { Event(s, i, 5000, 1, m) :
      s \in {<<"a">>, NoneStr, <<>>}, i \in {<<>>, <<"p">>}, m \in {<<"x">>, <<"y">>} }

\* query boundaries: a zone without daylight saving time and a zone whose
\* clocks go forward from 02:00 to 03:00, or back from 02:00 to 01:00, on
\* day 1; bounds of the window on that day around the two hours
SpringForward ==
  Zone(-5 * SecondsPerHour, -4 * SecondsPerHour, SecondsPerDay + 7 * SecondsPerHour)
FallBack ==
  Zone(-4 * SecondsPerHour, -5 * SecondsPerHour, SecondsPerDay + 6 * SecondsPerHour)
Zones == {Utc, SpringForward, FallBack}
EpochSecondsOfDay ==
  { SecondsPerHour, 2 * SecondsPerHour - 1, 2 * SecondsPerHour,
    2 * SecondsPerHour + 1800, 3 * SecondsPerHour - 1, 3 * SecondsPerHour }
EpochRaws ==
  {NoneRaw, Raw("date", 1, 0)} \cup {Raw("datetime", 1, sec) : sec \in EpochSecondsOfDay}
EpochClock == {SecondsPerDay + 3 * SecondsPerHour}

----------------------------------------------------------------------------
(* Specifications                                                          *)

Prologue ==
  \/ ParseArgs(OneBase, OneEnv, OneRaw)
  \/ ResolveWindow(OneClock)
  \/ ResolveProfile(Succeeds)
  \/ CreateSession(Succeeds, OneZone)

Listing == ListGroupsPage(OneGroup) \/ ListGroupsEnd

Writing == Mkdir \/ OpenFile \/ WriteLine \/ CloseFile

\* the whole run of main, every failure included
Next ==
  \/ ParseArgs(MainBases, OneEnv, MainRaws)
  \/ ResolveWindow(MainClock)
  \/ ResolveProfile(MayFail)
  \/ CreateSession(MayFail, OneZone)
  \/ ListGroupsPage(MainGroups)
  \/ ListGroupsEnd
  \/ RemoteFails
  \/ FetchPage(MainEvents)
  \/ FetchEnd
  \/ Writing
  \/ WriteFails

Spec == Init /\ [][Next]_vars

\* resolve_window over all its inputs
NextWindow ==
  \/ ParseArgs(OneBase, OneEnv, RawValues)
  \/ ResolveWindow(ClockValues)

SpecWindow == Init /\ [][NextWindow]_vars

\* resolve_log_group_name over listings
NextResolve ==
  \/ ParseArgs(ResolveBases, OneEnv, OneRaw)
  \/ ResolveWindow(OneClock)
  \/ ResolveProfile(Succeeds)
  \/ CreateSession(Succeeds, OneZone)
  \/ ListGroupsPage(GroupNames)
  \/ ListGroupsEnd

SpecResolve == Init /\ [][NextResolve]_vars

\* fetch_events_by_stream over deliveries with repeated identifiers
NextDedup == Prologue \/ Listing \/ FetchPage(DedupEvents) \/ FetchEnd

SpecDedup == Init /\ [][NextDedup]_vars

\* the files of one stream over deliveries with tied keys
NextSort == Prologue \/ Listing \/ FetchPage(SortEvents) \/ FetchEnd \/ Writing

SpecSort == Init /\ [][NextSort]_vars

\* the file names over streams with colliding names
NextNames == Prologue \/ Listing \/ FetchPage(NameEvents) \/ FetchEnd \/ Writing

SpecNames == Init /\ [][NextNames]_vars

\* the output over deliveries of events that differ in the message alone
NextOrder == Prologue \/ Listing \/ FetchPage(OrderEvents) \/ FetchEnd \/ Writing

SpecOrder == Init /\ [][NextOrder]_vars

\* sanitize_filename_component over values
NextSanitize == Sanitize(SanitizeValues)

SpecSanitize == Init /\ [][NextSanitize]_vars

\* collection and writing over streams with and without a name
NextConserve == Prologue \/ Listing \/ FetchPage(ConserveEvents) \/ FetchEnd \/ Writing

SpecConserve == Init /\ [][NextConserve]_vars

\* the query boundaries over windows and time zones
NextEpoch ==
  \/ ParseArgs(OneBase, OneEnv, EpochRaws)
  \/ ResolveWindow(EpochClock)
  \/ ResolveProfile(Succeeds)
  \/ CreateSession(Succeeds, Zones)

SpecEpoch == Init /\ [][NextEpoch]_vars

----------------------------------------------------------------------------
(* Properties                                                              *)


\* what the paginator had yielded before the page it yielded last
Before(all) == SubSeq(all, 1, Len(all) - Len(page))

Members(seq) == {seq[i] : i \in 1..Len(seq)}

\* the places <<stream, n>> of the buckets
Places(buckets) ==
  {<<s, n>> : s \in DOMAIN buckets, n \in 1..MaxEvents + 1} \cap
  UNION {{<<s, n>> : n \in 1..Len(buckets[s])} : s \in DOMAIN buckets}

NonEmptyId(id) == id # NoneStr /\ id # <<>>

\* C1: after every page, each non-empty event identifier delivered so far is
\* held exactly once over all buckets together, and the item held is the
\* one of the first event delivered with that identifier, in that event's
\* stream; later events with the identifier are dropped.
C1_FirstSightingOnly ==
  \A k \in 1..Len(delivered) :
    LET id == delivered[k].eventId
        first == CHOOSE j \in 1..k :
                   /\ delivered[j].eventId = id
                   /\ \A i \in 1..(j - 1) : delivered[i].eventId # id
        held == {pl \in Places(acc.events_by_stream) :
                   acc.events_by_stream[pl[1]][pl[2]][3] = id}
    IN  NonEmptyId(id) =>
          /\ Cardinality(held) = 1
          /\ \A pl \in held :
               /\ pl[1] = StreamOf(delivered[first])
               /\ acc.events_by_stream[pl[1]][pl[2]] = Item(delivered[first])

\* an identifier delivered on two pages, for two different streams
C1_Witness ==
  /\ pc = "fetch_events"
  /\ pages = 2
  /\ \E e \in Members(Before(delivered)), d \in Members(page) :
       /\ NonEmptyId(e.eventId)
       /\ e.eventId = d.eventId
       /\ StreamOf(e) # StreamOf(d)
       /\ StreamOf(d) \notin DOMAIN acc.events_by_stream

\* the number of members of a sequence that satisfy Test
Count(seq, Test(_)) == Cardinality({i \in 1..Len(seq) : Test(seq[i])})

EventLacksId(event) == ~NonEmptyId(event.eventId)
ItemLacksId(item) == item[3] = <<>>

\* the items of all buckets, bucket after bucket
RECURSIVE AllItems(_, _)
AllItems(buckets, streams) ==
  IF streams = <<>> THEN <<>>
  ELSE buckets[Head(streams)] \o AllItems(buckets, Tail(streams))

Retained == AllItems(acc.events_by_stream, SortedStrs(DOMAIN acc.events_by_stream))

\* C2: after every page, as many items without an identifier are held as
\* events with an absent or empty identifier were delivered: none of them
\* is dropped, however alike they are.
C2_NoIdNeverDropped ==
  Count(Retained, ItemLacksId) = Count(delivered, EventLacksId)

\* the same event without identifier delivered twice, and held twice
C2_Witness ==
  \E j, k \in 1..Len(delivered) :
    /\ j < k
    /\ delivered[j] = delivered[k]
    /\ delivered[j].eventId = <<>>
    /\ Len(acc.events_by_stream[StreamOf(delivered[j])]) >= 2

\* the listed names that are str and end with the suffix, in listing order
HasSuffix(name, suffix) ==
  /\ name # NoneStr
  /\ \E k \in 0..Len(name) : name = SubSeq(name, 1, k) \o suffix

RECURSIVE ListedMatches(_, _)
ListedMatches(names, suffix) ==
  IF names = <<>> THEN <<>>
  ELSE (IF HasSuffix(Head(names), suffix) THEN <<Head(names)>> ELSE <<>>)
         \o ListedMatches(Tail(names), suffix)

Occurrences(seq, x) == Cardinality({i \in 1..Len(seq) : seq[i] = x})

\* C3: once the listing is exhausted, resolve_log_group_name returns a name
\* exactly when one listed name ends with base-env, and returns that name;
\* with none it raises the not-found error naming the suffix; with several
\* it raises the ambiguity error that lists all of them in sorted order.
C3_ExactlyOneMatch ==
  resolved.kind # "unset" =>
    LET suffix == base_name \o <<"-">> \o env_name
        found == ListedMatches(listed, suffix)
    IN  /\ resolved.kind = "ok" <=> Len(found) = 1
        /\ resolved.kind = "ok" => resolved.name = found[1]
        /\ Len(found) = 0 =>
             /\ resolved.kind = "ConfigError"
             /\ resolved.msg = "No log groups found"
             /\ resolved.suffix = suffix
        /\ Len(found) > 1 =>
             /\ resolved.kind = "ConfigError"
             /\ resolved.msg = "Multiple log groups match"
             /\ resolved.suffix = suffix
             /\ Len(resolved.candidates) = Len(found)
             /\ \A i \in 1..Len(found) :
                  Occurrences(resolved.candidates, found[i]) = Occurrences(found, found[i])
             /\ \A i \in 1..(Len(found) - 1) :
                  ~StrLess(resolved.candidates[i + 1], resolved.candidates[i])

\* two different matching names, listed on two pages in descending order
C3_Witness ==
  /\ resolved.kind = "ConfigError"
  /\ Len(resolved.candidates) = 2
  /\ StrLess(resolved.candidates[1], resolved.candidates[2])
  /\ listed = <<resolved.candidates[2], resolved.candidates[1]>>

\* the instant a well-formed --from/--to value names
RawInstant(raw) ==
  raw.day * SecondsPerDay + (IF raw.fmt = "datetime" THEN raw.sec ELSE 0)

IsGiven(raw) == raw.fmt \in {"date", "datetime"}
IsWellFormed(raw) == raw.fmt \in {"None", "empty", "date", "datetime"}

\* C4: for well-formed inputs resolve_window takes to = the value given or
\* now, from = the value given or to - 12h; it raises the invalid-window
\* error exactly when that from is after that to, and otherwise returns
\* exactly (from, to), so from <= to and to - from = 12h when from was not
\* given.
C4_WindowRules ==
  (window.kind # "unset" /\ IsWellFormed(args.from_ts) /\ IsWellFormed(args.to_ts)) =>
    LET to_dt == IF IsGiven(args.to_ts) THEN RawInstant(args.to_ts) ELSE now_local
        from_dt == IF IsGiven(args.from_ts) THEN RawInstant(args.from_ts)
                   ELSE to_dt - DEFAULT_WINDOW_HOURS * 3600
    IN  /\ (window.kind = "ConfigError") <=> (from_dt > to_dt)
        /\ from_dt <= to_dt =>
             /\ window.kind = "ok"
             /\ window.from_dt = from_dt
             /\ window.to_dt = to_dt
             /\ window.from_dt <= window.to_dt
             /\ ~IsGiven(args.from_ts) => window.to_dt - window.from_dt = 12 * 3600

\* the files a successful run has written, by path
Written ==
  [p \in {written_paths[i] : i \in 1..Len(written_paths)} |-> disk[p].lines]

\* the orders in which the source may deliver the same events
Reorderings(seq) ==
  {[i \in 1..Len(seq) |-> seq[pi[i]]] : pi \in Permutations(1..Len(seq))}

\* the files a run writes when the events arrive in the given order
FilesOf(order) ==
  write_event_files(resolved.name, window.from_dt, window.to_dt,
                    CollectPage(EmptyCollection, order).events_by_stream)

\* C5: the files of a successful run, names and line sequences, are those
\* that any other delivery order of the same events yields.
C5_OrderIndependent ==
  (pc = "exit" /\ exit_code = 0) =>
    \A order \in Reorderings(delivered) : FilesOf(order) = Written

\* item <= other in the key (timestamp, ingestion time, event id)
KeyLeq(item, other) ==
  \/ item[1] < other[1]
  \/ /\ item[1] = other[1]
     /\ \/ item[2] < other[2]
        \/ item[2] = other[2] /\ ~StrLess(other[3], item[3])

\* C6: in every file the run has opened, each line is the line of its item
\* and the items stand in ascending order of (timestamp, ingestion time,
\* event id); a closed file holds the items of its stream's bucket, each as
\* often as the bucket does.
C6_LinesInKeyOrder ==
  \A k \in 1..Len(opened) :
    LET file == disk[opened[k].path]
        bucket == events_by_stream[opened[k].stream_name]
    IN  /\ Len(file.lines) = Len(file.items)
        /\ \A i \in 1..Len(file.items) :
             file.lines[i] = <<Dec(file.items[i][1] \div 1000), file.items[i][4]>>
        /\ \A i, j \in 1..Len(file.items) :
             i < j => KeyLeq(file.items[i], file.items[j])
        /\ opened[k].path \in {written_paths[i] : i \in 1..Len(written_paths)} =>
             /\ Len(file.items) = Len(bucket)
             /\ \A i \in 1..Len(bucket) :
                  Occurrences(file.items, bucket[i]) = Occurrences(bucket, bucket[i])

\* a file of three lines whose bucket held them in the opposite order: the
\* ingestion time breaks a timestamp tie, the event id a tie on both
C6_Witness ==
  /\ exit_code = 0
  /\ \E k \in 1..Len(opened) :
       LET items == disk[opened[k].path].items
           bucket == events_by_stream[opened[k].stream_name]
       IN  /\ Len(items) = 3
           /\ bucket = <<items[3], items[2], items[1]>>
           /\ items[1][1] = items[3][1]
           /\ items[1][2] = items[2][2] /\ items[2][2] < items[3][2]
           /\ StrLess(items[1][3], items[2][3])

\* the base name of the k-th stream the writer visited
BaseName(k) ==
  Stem(resolved.name, window.from_dt, window.to_dt, opened[k].stream_name)

Suffixed(stem, n) == stem \o <<"_">> \o Dec(n)

\* C7: the writer visits the streams in ascending order of their original
\* names; each gets its base name if no stream before it took that name,
\* else the base name with the first suffix _2, _3, ... no stream before it
\* took; all paths are pairwise different; a file already on disk under a
\* name is no collision and is overwritten.
C7_UniqueNames ==
  LET earlier(k) == {opened[j].path : j \in 1..(k - 1)}
  IN  /\ \A j, k \in 1..Len(opened) :
           j < k => /\ StrLess(opened[j].stream_name, opened[k].stream_name)
                    /\ opened[j].path # opened[k].path
      /\ \A k \in 1..Len(opened) :
           /\ opened[k].stream_name \in DOMAIN events_by_stream
           /\ \A s \in DOMAIN events_by_stream :
                StrLess(s, opened[k].stream_name) =>
                  s \in {opened[j].stream_name : j \in 1..(k - 1)}
           /\ IF BaseName(k) \notin earlier(k)
              THEN opened[k].path = BaseName(k)
              ELSE \E n \in 2..(k + 1) :
                     /\ opened[k].path = Suffixed(BaseName(k), n)
                     /\ opened[k].path \notin earlier(k)
                     /\ \A m \in 2..(n - 1) : Suffixed(BaseName(k), m) \in earlier(k)
           /\ opened[k].path = PreexistingPath => disk[PreexistingPath] # PreexistingFile
      /\ written_paths =
           [k \in 1..Len(written_paths) |-> opened[k].path]
      /\ (pc = "exit" /\ exit_code = 0) =>
           /\ Len(written_paths) = Cardinality(DOMAIN events_by_stream)
           /\ Cardinality({written_paths[k] : k \in 1..Len(written_paths)})
                = Len(written_paths)

\* three streams: one named like the suffixed name of the next, which takes
\* the name of a file already on disk, and a third that sanitizes to the
\* same name and ends up with _3
C7_Witness ==
  /\ exit_code = 0
  /\ Len(opened) = 3
  /\ opened[1].path = Suffixed(PreexistingPath, 2)
  /\ opened[2].path = PreexistingPath
  /\ opened[3].path = Suffixed(PreexistingPath, 3)
  /\ BaseName(3) = PreexistingPath

\* the lines a stream's file holds when it was written whole
WholeFile(stream_name) ==
  LET events == SortedItems(events_by_stream[stream_name])
  IN  [i \in 1..Len(events) |-> Line(events[i])]

\* C8: when the run has ended, with or without an I/O error, every file it
\* opened holds all the lines of its stream.
C8_NoHalfWrittenFile ==
  pc = "exit" =>
    \A k \in 1..Len(opened) :
      disk[opened[k].path].lines = WholeFile(opened[k].stream_name)

\* the place of a statement of main in the order of the stages
Stage(label) ==
  CASE label = "parse_args" -> 0
    [] label = "resolve_window" -> 1
    [] label = "resolve_profile" -> 2
    [] label = "session" -> 3
    [] label = "list_groups" -> 4
    [] label = "fetch_events" -> 5
    [] label = "mkdir" -> 6
    [] label \in {"open", "write_line", "close"} -> 7
    [] label = "exit" -> 8

NothingWritten ==
  /\ ~dir_created
  /\ opened = <<>>
  /\ disk = (PreexistingPath :> PreexistingFile)

\* C9 (states): a later stage has results only when the earlier stages
\* succeeded, the directory and the files are touched only by the writing
\* stage after window, log group and collection are there, and a run that
\* ended on a remote failure has written nothing.
C9_NoOutputBeforeCollection ==
  /\ resolved.kind # "unset" => window.kind = "ok"
  /\ (delivered # <<>> \/ pc = "fetch_events") => resolved.kind = "ok"
  /\ ~NothingWritten =>
       /\ window.kind = "ok"
       /\ resolved.kind = "ok"
       /\ events_by_stream = acc.events_by_stream
       /\ Stage(pc) >= 7
       /\ exit_code \in {-1, 0, 2}
  /\ Stage(pc) <= 6 => NothingWritten
  /\ exit_code = 3 => NothingWritten /\ events_by_stream = <<>>

\* C9 (steps): main goes through its stages in the one order, never back
\* and never past a stage except to exit; an ended run takes no further
\* step, so nothing is retried.
C9_StepInOrder ==
  /\ pc # "exit"
  /\ Stage(pc') >= Stage(pc)
  /\ pc' # "exit" => Stage(pc') <= Stage(pc) + 1

\* C9: the stages run in the order window, log group, collection, writing;
\* nothing is created or written unless the three earlier stages succeeded,
\* and a remote failure on any page ends the run with what was collected so
\* far left unwritten.
C9_StagesInOrder == [](C9_NoOutputBeforeCollection) /\ [][C9_StepInOrder]_vars

\* the remote source failed on a later page, after events had been collected
C9_Witness ==
  /\ exit_code = 3
  /\ pages >= 1
  /\ acc.events_by_stream # <<>>
  /\ NothingWritten

\* C10: a run that has ended has exit code 0, 2 or 3; 0 only when the file
\* of every stream was written; 2 when the base name or --env is empty,
\* a time bound is malformed or the bounds contradict, or the log group is
\* not found or ambiguous; 3 only when the remote service failed.
C10_ExitCodes ==
  pc = "exit" =>
    /\ exit_code \in {0, 2, 3}
    /\ exit_code = 0 =>
         /\ Len(written_paths) = Cardinality(DOMAIN events_by_stream)
         /\ \A k \in 1..Len(opened) :
              disk[opened[k].path].lines = WholeFile(opened[k].stream_name)
    /\ ( \/ Strip(args.base_log_group_name) = <<>>
         \/ Strip(args.env) = <<>>
         \/ window.kind = "ConfigError"
         \/ resolved.kind = "ConfigError" ) => exit_code = 2
    /\ exit_code = 3 => window.kind = "ok" /\ NothingWritten

\* the words of a value: the maximal stretches between separators and
\* underscores, without the characters outside [A-Za-z0-9._-], the empty
\* stretches left out; word is the stretch being read
RECURSIVE SplitWords(_, _)
SplitWords(s, word) ==
  LET closed == IF word = <<>> THEN <<>> ELSE <<word>>
  IN  IF s = <<>> THEN closed
      ELSE IF IsSeparator(Head(s)) \/ Head(s) = "_"
           THEN closed \o SplitWords(Tail(s), <<>>)
      ELSE IF IsSafeChar(Head(s)) THEN SplitWords(Tail(s), Append(word, Head(s)))
      ELSE SplitWords(Tail(s), word)

\* "_".join(words)
RECURSIVE JoinWords(_)
JoinWords(words) ==
  IF Len(words) = 1 THEN Head(words)
  ELSE Head(words) \o <<"_">> \o JoinWords(Tail(words))

\* C11: sanitize_filename_component returns a non-empty str over
\* [A-Za-z0-9._-] without two underscores in a row and without an underscore
\* at either end: the words of the value joined by single underscores, every
\* run of separators having become one underscore and the other disallowed
\* characters dropped, or "item" when the value has no word.
C11_SafeComponent ==
  sanitized # NoneStr =>
    LET words == SplitWords(value, <<>>)
    IN  /\ sanitized # <<>>
        /\ \A i \in 1..Len(sanitized) : IsSafeChar(sanitized[i])
        /\ \A i \in 1..(Len(sanitized) - 1) :
             ~(sanitized[i] = "_" /\ sanitized[i + 1] = "_")
        /\ sanitized[1] # "_"
        /\ sanitized[Len(sanitized)] # "_"
        /\ sanitized = IF words = <<>> THEN <<"i", "t", "e", "m">> ELSE JoinWords(words)

\* "a/b c:d" yields "a_b_c_d"
C11_Witness ==
  /\ value = <<"a", "/", "b", " ", "c", ":", "d">>
  /\ sanitized = <<"a", "_", "b", "_", "c", "_", "d">>

\* what the clocks of a zone show at an instant
ReadsAs(instant, zone) ==
  instant + (IF instant < zone.at THEN zone.before ELSE zone.after)

\* the clocks of the zone show the local reading dt at some instant
IsShown(dt, zone) ==
  \E offset \in {zone.before, zone.after} : ReadsAs(dt - offset, zone) = dt

\* C12: start_ms is 1000 times an instant at which the clocks show the
\* window's start and end_ms is 999 more than 1000 times an instant at which
\* they show its end, whenever they show these readings at all; start_ms is
\* not after end_ms, and every millisecond of the end second, its first one
\* included, lies in [start_ms, end_ms].
C12_EndSecondInRange ==
  tz # NoZone =>
    /\ start_ms % 1000 = 0
    /\ end_ms % 1000 = 999
    /\ IsShown(window.from_dt, tz) => ReadsAs(start_ms \div 1000, tz) = window.from_dt
    /\ IsShown(window.to_dt, tz) => ReadsAs(end_ms \div 1000, tz) = window.to_dt
    /\ start_ms <= end_ms
    /\ \A timestamp_ms \in (end_ms - 999)..end_ms :
         start_ms <= timestamp_ms /\ timestamp_ms <= end_ms

\* the stream name of an event, "unknown_stream" when absent or empty
FiledUnder(event) ==
  IF event.logStreamName \in {NoneStr, <<>>}
  THEN <<"u","n","k","n","o","w","n","_","s","t","r","e","a","m">>
  ELSE event.logStreamName

\* the deliveries the collector retains: all but those that repeat a
\* non-empty identifier delivered before
Kept ==
  { k \in 1..Len(delivered) :
      ~(/\ NonEmptyId(delivered[k].eventId)
        /\ \E j \in 1..(k - 1) : delivered[j].eventId = delivered[k].eventId) }

KeptIn(stream_name) == {k \in Kept : FiledUnder(delivered[k]) = stream_name}

\* C13: no bucket is ever empty; after a successful run every retained
\* event has its line in the one file of its stream name ("unknown_stream"
\* for an absent or empty name), as often as retained events of that stream
\* are alike; a file holds as many lines as its stream has retained events,
\* so no line stands in a second file; as many files are written as the
\* retained events have different stream names, and none of them is empty.
C13_Conservation ==
  /\ \A s \in DOMAIN acc.events_by_stream : acc.events_by_stream[s] # <<>>
  /\ (pc = "exit" /\ exit_code = 0) =>
       LET paths == {written_paths[i] : i \in 1..Len(written_paths)}
           FilesFor(stream_name) ==
             {f \in 1..Len(opened) : opened[f].stream_name = stream_name}
       IN  /\ \A k \in Kept :
                LET stream_name == FiledUnder(delivered[k])
                    item == Item(delivered[k])
                    alike == {j \in KeptIn(stream_name) : Item(delivered[j]) = item}
                IN  /\ Cardinality(FilesFor(stream_name)) = 1
                    /\ \A f \in FilesFor(stream_name) :
                         /\ opened[f].path \in paths
                         /\ Occurrences(disk[opened[f].path].items, item)
                              = Cardinality(alike)
           /\ \A f \in 1..Len(opened) :
                LET file == disk[opened[f].path]
                IN  /\ Len(file.lines) = Cardinality(KeptIn(opened[f].stream_name))
                    /\ Len(file.items) = Len(file.lines)
                    /\ \A i \in 1..Len(file.lines) :
                         file.lines[i] =
                           <<Dec(file.items[i][1] \div 1000), file.items[i][4]>>
           /\ paths = {opened[f].path : f \in 1..Len(opened)}
           /\ Cardinality(paths) = Len(written_paths)
           /\ Len(written_paths)
                = Cardinality({FiledUnder(delivered[k]) : k \in Kept})
           /\ \A path \in paths : disk[path].lines # <<>>

\* a successful run over an event with an absent and an event with an empty
\* stream name, both retained and written to the one file of
\* "unknown_stream", next to the file of a named stream
C13_Witness ==
  /\ pc = "exit"
  /\ exit_code = 0
  /\ Len(written_paths) = 2
  /\ \E j, k \in Kept :
       /\ delivered[j].logStreamName = NoneStr
       /\ delivered[k].logStreamName = <<>>
       /\ \E f \in 1..Len(opened) :
            /\ opened[f].stream_name = FiledUnder(delivered[j])
            /\ Len(disk[opened[f].path].lines) = 2

====
